---- MODULE Spec2Model ----
(***************************************************************************)
(* Interview-scheduling HTTP API (src/app/api/main.py) and the credential *)
(* validation script (src/test_api_keys.py).                               *)
(*                                                                         *)
(* The four request handlers are modelled as atomic actions over the      *)
(* booking store.  The services the handlers call (booking store, email   *)
(* notifier, resume service) are not part of src/: they are modelled from *)
(* their contracts in spec.md section 4 and their outcome (success, error *)
(* result, raised exception) is an input of the action.                   *)
(*                                                                         *)
(* Conventions: an Optional[str] is the string itself or None; an         *)
(* optional record is the empty sequence or a one-element sequence.       *)
(* Timestamps are minutes relative to 2025-03-01T00:00 wall-clock.        *)
(***************************************************************************)
EXTENDS Integers, Sequences, FiniteSets, TLC

VARIABLES
    config,     \* process-wide configuration, read once at start-up
    store,      \* the booking table: the booking with token t is store[t]
    requested,  \* history: requested[t] is the create_booking call behind store[t]
    last,       \* the request handled last: its input, provider calls and response
    diag        \* a run of the credential validation script (src/test_api_keys.py)

vars == <<config, store, requested, last, diag>>

None == "None"

----------------------------------------------------------------------------
(* Bounds *)

MaxBookings == 2

(* Program constants *)

RandMax == 99999

IstOffsetMinutes == 330

TokenTtlMinutes == 15

----------------------------------------------------------------------------
(* Datetime strings.  A request's datetime text is kept by its shape:      *)
(*   kind  "empty" (the empty string), "junk" (no ISO date, e.g. "soon"),  *)
(*         "iso" (the date 2025-03-01 in YYYY-MM-DD form, then:)           *)
(*   sep   the character after the date: "" for a date-only string, else   *)
(*         "T", or another single character ("+", "-", "Z"), which         *)
(*         datetime.fromisoformat accepts as the separator as well;        *)
(*   tod   the time of day HH:MM:SS, in minutes;                           *)
(*   zone  the trailing zone designator: "", "Z", "+05:30", "-05:00"       *)
(*         ("+00:00" arises from the handler's replace of "Z").            *)

EmptyText == [kind |-> "empty", sep |-> "", tod |-> 0, zone |-> ""]

JunkText == [kind |-> "junk", sep |-> "", tod |-> 0, zone |-> ""]

Iso(sep, tod, zone) == [kind |-> "iso", sep |-> sep, tod |-> tod, zone |-> zone]

DateOnly == Iso("", 0, "")

ZoneOffset(zone) ==
    CASE zone = "+05:30" -> 330
      [] zone = "-05:00" -> -300
      [] OTHER -> 0

\* 'Z' in text
ContainsZ(text) == text.kind = "iso" /\ (text.sep = "Z" \/ text.zone = "Z")

\* '+' in text
ContainsPlus(text) ==
    text.kind = "iso" /\ (text.sep = "+" \/ text.zone \in {"+05:30", "+00:00"})

\* text.count('-')
DashCount(text) ==
    IF text.kind = "iso"
    THEN 2 + (IF text.sep = "-" THEN 1 ELSE 0) + (IF text.zone = "-05:00" THEN 1 ELSE 0)
    ELSE 0

\* text.replace('Z', '+00:00'): every 'Z' is replaced, a separator 'Z' too,
\* which leaves a string fromisoformat rejects
ReplaceZ(text) ==
    IF text.kind # "iso" THEN text
    ELSE IF text.sep = "Z" THEN JunkText
    ELSE IF text.zone = "Z" THEN [text EXCEPT !.zone = "+00:00"]
    ELSE text

ValueError == [ok |-> FALSE, aware |-> FALSE, wall |-> 0, off |-> 0]

Naive(wall) == [ok |-> TRUE, aware |-> FALSE, wall |-> wall, off |-> 0]

Aware(wall, off) == [ok |-> TRUE, aware |-> TRUE, wall |-> wall, off |-> off]

\* datetime.fromisoformat: a date-only string is midnight; any single
\* character separates date and time; without a zone designator the result
\* is naive, with one it is aware with that offset
FromIsoFormat(text) ==
    IF text.kind # "iso" THEN ValueError
    ELSE IF text.sep = "" THEN Naive(0)
    ELSE IF text.zone = "" THEN Naive(text.tod)
    ELSE Aware(text.tod, ZoneOffset(text.zone))

\* dt.replace(tzinfo=ist_offset).astimezone(timezone.utc)
IstToUtc(dt) == Aware(dt.wall - IstOffsetMinutes, 0)

\* The UTC instant an aware timestamp denotes; a naive one denotes none
UtcInstant(dt) == IF dt.aware THEN <<dt.wall - dt.off>> ELSE <<>>


----------------------------------------------------------------------------
(* schedule_interview: datetime parsing *)

\* 'Z' in s or '+' in s or s.count('-') > 2: the handler's test for
\* "has timezone info"
HasZoneInfo(text) == ContainsZ(text) \/ ContainsPlus(text) \/ DashCount(text) > 2

\* datetime.fromisoformat(s.replace('Z', '+00:00')): the result is used as
\* parsed, aware or not
ParseWithZone(text) == FromIsoFormat(ReplaceZ(text))

ParseOffsetlessAsUtc(text) == FromIsoFormat(text)

\* naive_dt = fromisoformat(s), then read as IST and converted to UTC
ParseOffsetless(text) ==
    LET naive_dt == FromIsoFormat(text)
    IN  IF naive_dt.ok THEN IstToUtc(naive_dt) ELSE ValueError

\* except ValueError: parse the string as it is; a naive result is read as
\* IST and converted to UTC
ParseFallback(text) ==
    LET dt == FromIsoFormat(text)
    IN  IF dt.ok /\ ~dt.aware THEN IstToUtc(dt) ELSE dt

\* The whole try/except of the handler; ok = FALSE is the inner ValueError,
\* answered 400
ParseDatetime(text) ==
    LET first == IF HasZoneInfo(text) THEN ParseWithZone(text) ELSE ParseOffsetless(text)
    IN  IF first.ok THEN first ELSE ParseFallback(text)

----------------------------------------------------------------------------
(* Requests and responses *)

WellFormedEmails == {"ann@x.io"}

\* ScheduleInterviewRequest: email is an EmailStr, so a request whose email
\* is not a well-formed address is rejected by the request model (422)
\* before the handler body runs
RequestModelAccepts(request) == request.email \in WellFormedEmails

MissingRequiredFieldsNoPhone(request) ==
    \/ request.name = ""
    \/ request.email = ""
    \/ request.datetime.kind = "empty"

\* not request.name or not request.email or not request.phone or not request.datetime
MissingRequiredFields(request) ==
    \/ request.name = ""
    \/ request.email = ""
    \/ request.phone = ""
    \/ request.datetime.kind = "empty"

Response(status, detail, body, calls, handed) ==
    [status |-> status, detail |-> detail, body |-> body, calls |-> calls,
     handed |-> handed]

HTTPException(status, detail, calls) == Response(status, detail, <<>>, calls, <<>>)

\* One entry of a request's trace of service calls: the call and how it ended
Call(name, outcome) == <<name, outcome>>

\* config.server.frontend_url.rstrip('/')
RStripSlash(url) == [url EXCEPT !.slash = FALSE]

\* f"{base_url}/interview/{token}", as its path segments
InterviewUrl(frontend_url, token) ==
    <<RStripSlash(frontend_url).origin, "interview", token>>

----------------------------------------------------------------------------
(* Services: booking store accessor and email notifier (spec.md 4.2, 4.3) *)

\* The store keeps an aware timestamp normalized to UTC, a naive one as given
StoredTimestamp(dt) == IF dt.aware THEN Aware(dt.wall - dt.off, 0) ELSE dt

\* create(...) -> token: the record persisted under a fresh token
CreateBooking(token, name, email, phone, scheduled_at, resume_text, resume_url) ==
    [token |-> token, name |-> name, email |-> email, phone |-> phone,
     scheduled_at |-> StoredTimestamp(scheduled_at), created_at |-> "now",
     resume_text |-> resume_text, resume_url |-> resume_url]

CreateOutcomes == {"ok", "error"}

StorageError == "storage: write failed"

\* get(token) -> booking or "not found": a direct keyed read
Lookup(token) == IF token \in DOMAIN store THEN <<store[token]>> ELSE <<>>

LookupOutcomes == {"ok", "error"}

LookupError == "storage: read failed"

\* send_interview_email(...) -> (sent, error), or an exception
EmailOutcomes == {"sent", "failed", "raised"}

SendInterviewEmail(mail) ==
    CASE mail = "sent"   -> [raised |-> FALSE, sent |-> TRUE, error |-> None]
      [] mail = "failed" -> [raised |-> FALSE, sent |-> FALSE, error |-> "email: rejected"]
      [] mail = "raised" -> [raised |-> TRUE, sent |-> FALSE, error |-> "email: timeout"]

----------------------------------------------------------------------------
(* schedule_interview *)

BookingFailureDropsCause(error) ==
    HTTPException(500, <<"Failed to create booking: ">>,
                  <<Call("create_booking", "error")>>)

\* except Exception as e around create_booking
BookingFailure(error) ==
    HTTPException(500, <<"Failed to create booking: ", error>>,
                  <<Call("create_booking", "error")>>)

EmailStageDropsError(mail) ==
    LET r == SendInterviewEmail(mail)
    IN  IF r.raised THEN [sent |-> FALSE, error |-> None]
        ELSE [sent |-> r.sent, error |-> r.error]

\* email_sent, email_error = False, None; the try around send_interview_email
EmailStage(mail) ==
    LET r == SendInterviewEmail(mail)
    IN  IF r.raised THEN [sent |-> FALSE, error |-> r.error]
        ELSE [sent |-> r.sent, error |-> r.error]

\* The handler from the parsed timestamp on: create the booking, build the
\* URL, send the email, answer
ScheduleParsed(request, scheduled_at, created, mail, token) ==
    IF created = "error"
    THEN [BookingFailure(StorageError) EXCEPT !.handed = <<scheduled_at>>]
         @@ [booking |-> <<>>]
    ELSE LET email == EmailStage(mail)
         IN  Response(200, <<>>,
                      <<[ok |-> TRUE,
                         interviewUrl |-> InterviewUrl(config.frontend_url, token),
                         emailSent |-> email.sent,
                         emailError |-> email.error]>>,
                      <<Call("create_booking", "ok"), Call("send_interview_email", mail)>>,
                      <<scheduled_at>>)
             @@ [booking |-> <<CreateBooking(token, request.name, request.email,
                                             request.phone, scheduled_at,
                                             request.resumeText, request.resumeUrl)>>]

\* A handler that books a candidate once: a request for an email that has a
\* booking is answered with that booking's URL and creates nothing
ScheduleOutcomeOncePerCandidate(request, created, mail, token) ==
    LET booked == {t \in DOMAIN store : store[t].email = request.email}
        scheduled_at == ParseDatetime(request.datetime)
    IN  IF ~RequestModelAccepts(request)
        THEN HTTPException(422, <<"value is not a valid email address">>, <<>>)
             @@ [booking |-> <<>>]
        ELSE IF MissingRequiredFields(request) \/ ~scheduled_at.ok
        THEN HTTPException(400, <<"Invalid request">>, <<>>) @@ [booking |-> <<>>]
        ELSE IF booked # {} /\ created = "ok"
        THEN [ScheduleParsed(request, scheduled_at, created, mail,
                             CHOOSE t \in booked : TRUE) EXCEPT !.booking = <<>>]
        ELSE ScheduleParsed(request, scheduled_at, created, mail, token)

\* The whole handler, request-model validation included
ScheduleOutcome(request, created, mail, token) ==
    IF ~RequestModelAccepts(request)
    THEN HTTPException(422, <<"value is not a valid email address">>, <<>>)
         @@ [booking |-> <<>>]
    ELSE IF MissingRequiredFields(request)
    THEN HTTPException(400, <<"Missing required fields: name, email, phone, datetime">>, <<>>)
         @@ [booking |-> <<>>]
    ELSE LET scheduled_at == ParseDatetime(request.datetime)
         IN  IF ~scheduled_at.ok
             THEN HTTPException(400, <<"Invalid datetime format. Expected ISO format.">>, <<>>)
                  @@ [booking |-> <<>>]
             ELSE ScheduleParsed(request, scheduled_at, created, mail, token)

ScheduleInterview(request, created, mail) ==
    LET r == ScheduleOutcome(request, created, mail, Len(store) + 1)
    IN  /\ r.booking # <<>> => Len(store) < MaxBookings
        /\ store' = IF r.booking # <<>> THEN Append(store, r.booking[1]) ELSE store
        /\ requested' = IF r.booking # <<>>
                        THEN Append(requested, [request |-> request,
                                                scheduled_at |-> r.handed[1]])
                        ELSE requested
        /\ last' = [op |-> "schedule", request |-> <<request>>, status |-> r.status,
                    detail |-> r.detail, body |-> r.body, calls |-> r.calls,
                    handed |-> r.handed]
        /\ UNCHANGED config

----------------------------------------------------------------------------
(* get_booking *)

GetBookingAnswersEmpty(found) ==
    IF found = <<>>
    THEN Response(200, <<>>, <<>>, <<Call("get_booking", "ok")>>, <<>>)
    ELSE Response(200, <<>>, found, <<Call("get_booking", "ok")>>, <<>>)

\* if not booking: 404; else BookingResponse(**booking)
GetBookingFound(found) ==
    IF found = <<>>
    THEN HTTPException(404, <<"Booking not found">>, <<Call("get_booking", "ok")>>)
    ELSE Response(200, <<>>, found, <<Call("get_booking", "ok")>>, <<>>)

\* The whole handler: a lookup that raises is answered 500
GetBookingOutcome(token, lookup) ==
    IF lookup = "error"
    THEN HTTPException(500, <<"Failed to fetch booking: ", LookupError>>,
                       <<Call("get_booking", "error")>>)
    ELSE GetBookingFound(Lookup(token))

\* A lookup that clears the resume text of the booking it reads
GetBookingConsumes(token, lookup) ==
    LET r == GetBookingOutcome(token, lookup)
    IN  /\ last' = [op |-> "get", request |-> <<[token |-> token]>>, status |-> r.status,
                    detail |-> r.detail, body |-> r.body, calls |-> r.calls,
                    handed |-> r.handed]
        /\ store' = [t \in DOMAIN store |->
                        IF t = token THEN [store[t] EXCEPT !.resume_text = "read"]
                        ELSE store[t]]
        /\ UNCHANGED <<config, requested>>

GetBooking(token, lookup) ==
    LET r == GetBookingOutcome(token, lookup)
    IN  /\ last' = [op |-> "get", request |-> <<[token |-> token]>>, status |-> r.status,
                    detail |-> r.detail, body |-> r.body, calls |-> r.calls,
                    handed |-> r.handed]
        /\ UNCHANGED <<config, store, requested>>

----------------------------------------------------------------------------
(* Resume service and object storage (spec.md 4.1, 4.2) *)

SupportedExtensions == {"pdf", "doc", "docx"}

\* validate_file -> (is_valid, error_msg): rejects an unsupported type or an
\* oversized payload with a reason
ValidateFile(file) ==
    IF file.ext \notin SupportedExtensions
    THEN [valid |-> FALSE, error |-> "Unsupported file type"]
    ELSE IF file.oversized
    THEN [valid |-> FALSE, error |-> "File too large"]
    ELSE [valid |-> TRUE, error |-> None]

UploadOutcomes == {"ok", "error"}

\* extract_text -> (text, error): plain text, or a non-fatal extraction error
ExtractOutcomes == {"text", "error"}

ExtractText(extracted) ==
    IF extracted = "text"
    THEN [text |-> "cv", error |-> None]
    ELSE [text |-> None, error |-> "extraction failed"]

----------------------------------------------------------------------------
(* upload_application *)

\* except Exception as e around upload_resume_to_storage
UploadFailure(error) ==
    HTTPException(500, <<"Failed to upload application: ", error>>,
                  <<Call("validate_file", "ok"), Call("upload_resume_to_storage", "error")>>)

\* A handler in which a failed extraction fails the upload
UploadOutcomeExtractionFatal(file, uploaded, extracted) ==
    IF ~ValidateFile(file).valid
    THEN HTTPException(400, <<ValidateFile(file).error>>, <<Call("validate_file", "rejected")>>)
    ELSE IF uploaded = "error"
    THEN UploadFailure(StorageError)
    ELSE IF extracted = "error"
    THEN HTTPException(500, <<"Failed to process application: ", ExtractText(extracted).error>>,
                       <<Call("validate_file", "ok"),
                         Call("upload_resume_to_storage", "ok"),
                         Call("extract_text", extracted)>>)
    ELSE Response(200, <<>>,
                  <<[resumeUrl |-> <<"storage", file.ext>>,
                     resumeText |-> ExtractText(extracted).text,
                     extractionError |-> None]>>,
                  <<Call("validate_file", "ok"),
                    Call("upload_resume_to_storage", "ok"),
                    Call("extract_text", extracted)>>,
                  <<>>)

\* The whole handler
UploadOutcome(file, uploaded, extracted) ==
    LET check == ValidateFile(file)
    IN  IF ~check.valid
        THEN HTTPException(400, <<check.error>>, <<Call("validate_file", "rejected")>>)
        ELSE IF uploaded = "error"
        THEN UploadFailure(StorageError)
        ELSE LET r == ExtractText(extracted)
             IN  Response(200, <<>>,
                          <<[resumeUrl |-> <<"storage", file.ext>>,
                             resumeText |-> IF r.text \notin {None, ""} THEN r.text ELSE None,
                             extractionError |-> r.error]>>,
                          <<Call("validate_file", "ok"),
                            Call("upload_resume_to_storage", "ok"),
                            Call("extract_text", extracted)>>,
                          <<>>)

UploadApplication(file, uploaded, extracted) ==
    LET r == UploadOutcome(file, uploaded, extracted)
    IN  /\ last' = [op |-> "upload", request |-> <<file>>, status |-> r.status,
                    detail |-> r.detail, body |-> r.body, calls |-> r.calls,
                    handed |-> r.handed]
        /\ UNCHANGED <<config, store, requested>>

----------------------------------------------------------------------------
(* connection_details *)

Falsy(text) == text \in {None, ""}

ConfigErrorIgnoresSecret(c) ==
    IF Falsy(c.url) THEN "LIVEKIT_URL is not configured"
    ELSE IF Falsy(c.api_key) THEN "LIVEKIT_API_KEY is not configured"
    ELSE None

\* Validate LiveKit config: the message of the first credential that is not
\* set, None when all three are
ConfigError(c) ==
    IF Falsy(c.url) THEN "LIVEKIT_URL is not configured"
    ELSE IF Falsy(c.api_key) THEN "LIVEKIT_API_KEY is not configured"
    ELSE IF Falsy(c.api_secret) THEN "LIVEKIT_API_SECRET is not configured"
    ELSE None

\* A room_config is None (<<>>) or a dict (<<d>>); d.agents is <<>> when the
\* dict has no "agents" key (the dict is then empty), else <<list>>, and an
\* entry of the list is a dict whose agent_name is None when it has none.
\* agents[0].get("agent_name") when the dict is non-empty and the list is
RequestedAgentName(room_config) ==
    IF room_config = <<>> THEN None
    ELSE IF room_config[1].agents = <<>> THEN None
    ELSE IF room_config[1].agents[1] = <<>> THEN None
    ELSE room_config[1].agents[1][1].agent_name

\* A derivation without the fallback to the configured default
AgentNameRequestOnly(room_config, default) == RequestedAgentName(room_config)

\* if not agent_name: agent_name = config.livekit.agent_name
AgentName(room_config, default) ==
    IF Falsy(RequestedAgentName(room_config)) THEN default
    ELSE RequestedAgentName(room_config)

\* if request.token: the booking's resume text, None when the booking is
\* unknown, has none, or the lookup raises
ResumeText(token, lookup) ==
    IF token = <<>> THEN None
    ELSE IF lookup = "error" THEN None
    ELSE LET booking == Lookup(token[1])
         IN  IF booking # <<>> /\ ~Falsy(booking[1].resume_text)
             THEN booking[1].resume_text
             ELSE None

\* json.dumps({"resume_text": resume_text}) if resume_text else None
RoomMetadata(resume_text) ==
    IF Falsy(resume_text) THEN <<>> ELSE <<[resume_text |-> resume_text]>>

VideoGrantsNoPublish(room_name) ==
    [room |-> room_name, room_join |-> TRUE, can_publish |-> FALSE,
     can_publish_data |-> TRUE, can_subscribe |-> TRUE]

\* livekit_api.VideoGrants(room=room_name, room_join=True, ...)
VideoGrants(room_name) ==
    [room |-> room_name, room_join |-> TRUE, can_publish |-> TRUE,
     can_publish_data |-> TRUE, can_subscribe |-> TRUE]

\* if agent_name: a RoomConfiguration dispatching the agent, carrying the
\* metadata when there is some; without an agent name none is attached
RoomConfiguration(agent_name, room_metadata) ==
    IF Falsy(agent_name) THEN <<>>
    ELSE <<[agents |-> <<agent_name>>, metadata |-> room_metadata]>>

\* AccessToken(api_key, api_secret) with identity, name, ttl, grants and room
\* configuration, then to_jwt(): the claims, signed with the secret
ParticipantToken(c, identity, room_name, agent_name, room_metadata) ==
    [api_key |-> c.api_key,
     signed_with |-> c.api_secret,
     identity |-> identity,
     name |-> "user",
     ttl |-> TokenTtlMinutes,
     video |-> VideoGrants(room_name),
     room_config |-> RoomConfiguration(agent_name, room_metadata)]

\* The handler once the configuration is validated
IssueCredential(request, lookup, user_rand, room_rand) ==
    LET agent_name == AgentName(request.room_config, config.agent_name)
        resume_text == ResumeText(request.token, lookup)
        room_name == <<"voice_assistant_room_", room_rand>>
        identity == <<"voice_assistant_user_", user_rand>>
    IN  Response(200, <<>>,
                 <<[serverUrl |-> config.url,
                    roomName |-> room_name,
                    participantName |-> "user",
                    participantToken |->
                        ParticipantToken(config, identity, room_name, agent_name,
                                         RoomMetadata(resume_text))]>>,
                 (IF request.token = <<>> THEN <<>> ELSE <<Call("get_booking", lookup)>>)
                     \o <<Call("to_jwt", "ok")>>,
                 <<>>)

\* A handler that lets a failed booking lookup fail the request
ConnectionOutcomeLookupFatal(request, lookup, user_rand, room_rand) ==
    IF ConfigError(config) # None
    THEN HTTPException(500, <<ConfigError(config)>>, <<>>)
    ELSE IF request.token # <<>> /\ lookup = "error"
    THEN HTTPException(500, <<"Failed to generate connection details: ", LookupError>>,
                       <<Call("get_booking", "error")>>)
    ELSE IssueCredential(request, lookup, user_rand, room_rand)

\* The whole handler
ConnectionOutcome(request, lookup, user_rand, room_rand) ==
    IF ConfigError(config) # None
    THEN HTTPException(500, <<ConfigError(config)>>, <<>>)
    ELSE IssueCredential(request, lookup, user_rand, room_rand)

ConnectionDetails(request, lookup, user_rand, room_rand) ==
    LET r == ConnectionOutcome(request, lookup, user_rand, room_rand)
    IN  /\ last' = [op |-> "connect", request |-> <<request>>, status |-> r.status,
                    detail |-> r.detail, body |-> r.body, calls |-> r.calls,
                    handed |-> r.handed]
        /\ UNCHANGED <<config, store, requested>>

----------------------------------------------------------------------------
(* Credential validation script (src/test_api_keys.py).  A probe reads its *)
(* settings from the environment and, when they are present, asks the      *)
(* provider; the values read and the provider's reply are the inputs of    *)
(* the probe.  A probe's verdict is the message it prints (class) and the  *)
(* value it returns (result).                                               *)

PyTrue == "True"

PyFalse == "False"

\* str.strip() on the values an environment variable takes here
Strip(value) == IF value = " " THEN "" ELSE value

\* not value or value.strip() in ["", ...templates]
NotFound(value, templates) ==
    value \in {None, ""} \/ Strip(value) \in ({""} \cup templates)

\* a or b
Either(a, b) == IF a \in {None, ""} THEN b ELSE a

Verdict(class, result) == [class |-> class, result |-> result]

\* An HTTP response with the given status
Reply(status_code) == [raised |-> None, status_code |-> status_code, text |-> "ok"]

\* An exception raised by the client call, with str(e)
Raised(message) == [raised |-> message, status_code |-> 0, text |-> None]

\* generate_content's response, with or without text
Generated(text) == [raised |-> None, status_code |-> 200, text |-> text]

test_google_gemini_api_key(google_api_key, google_genai_api_key, reply) ==
    IF NotFound(Either(google_api_key, google_genai_api_key), {"----", "your_google_api_key"})
    THEN Verdict("Not found or invalid value", PyFalse)
    ELSE IF reply.raised # None
    THEN IF reply.raised = "API_KEY_INVALID" THEN Verdict("INVALID or EXPIRED", PyFalse)
         ELSE IF reply.raised = "429 quota" THEN Verdict("Valid but QUOTA EXCEEDED", PyFalse)
         ELSE Verdict("ERROR", PyFalse)
    ELSE IF reply.text \notin {None, ""}
    THEN Verdict("VALID", PyTrue)
    ELSE Verdict("INVALID (no response)", PyFalse)

test_deepgram_api_key(api_key, reply) ==
    IF NotFound(api_key, {"your_deepgram_api_key"})
    THEN Verdict("Not found or invalid value", PyFalse)
    ELSE IF reply.raised # None THEN Verdict("ERROR", PyFalse)
    ELSE IF reply.status_code = 200 THEN Verdict("VALID", PyTrue)
    ELSE IF reply.status_code = 401 THEN Verdict("INVALID or EXPIRED", PyFalse)
    ELSE Verdict("Unexpected status", PyFalse)

test_elevenlabs_api_key(api_key, reply) ==
    IF NotFound(api_key, {"your_elevenlabs_api_key"})
    THEN Verdict("Not found or invalid value", PyFalse)
    ELSE IF reply.raised # None THEN Verdict("ERROR", PyFalse)
    ELSE IF reply.status_code = 200 THEN Verdict("VALID", PyTrue)
    ELSE IF reply.status_code = 401 THEN Verdict("INVALID or EXPIRED", PyFalse)
    ELSE Verdict("Unexpected status", PyFalse)

\* signed is the outcome of building the test token: the JWT, an empty
\* value, or an exception
test_livekit_credentials(api_key, api_secret, url, signed) ==
    LET checks == <<~NotFound(api_key, {"your_livekit_api_key"}),
                    ~NotFound(api_secret, {"your_livekit_api_secret"}),
                    ~NotFound(url, {"wss://your-livekit-server.com"})>>
    IN  IF \A i \in DOMAIN checks : checks[i]
        THEN IF signed.raised # None
             THEN Verdict("Error validating", PyFalse)
             ELSE IF signed.text \notin {None, ""}
             THEN Verdict("VALID (token generation successful)", PyTrue)
             ELSE Verdict("INVALID (token generation failed)", PyFalse)
        ELSE Verdict("Not found or invalid value", PyFalse)

test_supabase_credentials(url, key, reply) ==
    IF NotFound(url, {"https://your-project.supabase.co"})
    THEN Verdict("Not found or invalid value", PyFalse)
    ELSE IF NotFound(key, {"your_service_role_key"})
    THEN Verdict("Not found or invalid value", PyFalse)
    ELSE IF reply.raised # None THEN Verdict("Could not validate", PyTrue)
    ELSE IF reply.status_code \in {200, 301, 302} THEN Verdict("VALID", PyTrue)
    ELSE IF reply.status_code = 401 THEN Verdict("INVALID (401 Unauthorized)", PyFalse)
    ELSE Verdict("Status", PyTrue)

test_tavus_api_key(api_key, persona_id, replica_id, reply) ==
    IF api_key \in {None, ""}
    THEN Verdict("Not configured (optional)", None)
    ELSE IF persona_id \in {None, ""} \/ replica_id \in {None, ""}
    THEN Verdict("PERSONA_ID or REPLICA_ID missing", PyFalse)
    ELSE IF reply.raised # None
    THEN IF reply.raised = "402" THEN Verdict("VALID but OUT OF CREDITS", PyTrue)
         ELSE Verdict("ERROR", PyFalse)
    ELSE IF reply.status_code = 200 THEN Verdict("VALID", PyTrue)
    ELSE IF reply.status_code = 401 THEN Verdict("INVALID or EXPIRED", PyFalse)
    ELSE IF reply.status_code = 402 THEN Verdict("VALID but OUT OF CREDITS", PyTrue)
    ELSE Verdict("Status", PyFalse)

required_keys == <<"Google Gemini", "Deepgram", "ElevenLabs", "LiveKit", "Supabase">>

optional_keys == <<"Tavus">>

\* results.get(key)
ResultsGet(results, key) == IF key \in DOMAIN results THEN results[key] ELSE None

\* results[key] = value
ResultsSet(results, key, value) ==
    [k \in DOMAIN results \cup {key} |-> IF k = key THEN value ELSE results[k]]

\* The summary lines of main
Summary(results) ==
    [key \in DOMAIN required_keys |->
        <<required_keys[key],
          IF ResultsGet(results, required_keys[key]) = PyTrue THEN "VALID" ELSE "INVALID">>]
    \o [key \in DOMAIN optional_keys |->
        <<optional_keys[key],
          IF optional_keys[key] \in DOMAIN results
          THEN IF results[optional_keys[key]] = PyTrue THEN "VALID" ELSE "INVALID"
          ELSE "NOT CONFIGURED">>]

\* A summary in which the optional provider counts as well
AllKeysValid(results) ==
    /\ \A key \in DOMAIN required_keys : ResultsGet(results, required_keys[key]) = PyTrue
    /\ \A key \in DOMAIN optional_keys : ResultsGet(results, optional_keys[key]) = PyTrue

\* all_required_valid at the end of main's loop
AllRequiredValid(results) ==
    \A key \in DOMAIN required_keys : ResultsGet(results, required_keys[key]) = PyTrue

\* main's return value
ExitCode(results) == IF AllRequiredValid(results) THEN 0 ELSE 1

\* A main that goes straight to the summary when a probe fails
ThenAbortOnFailure(position, verdict) ==
    IF verdict.result = PyFalse THEN 7 ELSE position + 1

\* The statement of main that runs after the probe at the given position
\* has returned its verdict: the probes are awaited one after the other
Then(position, verdict) == position + 1

\* The script about to call main: nothing probed, no result, not exited
Started ==
    [pc |-> 1, probed |-> <<>>, results |-> <<>>, summary |-> <<>>,
     ended |-> "running", exit |-> <<>>]

\* results[name] = await probe()
Await(position, name, verdict) ==
    /\ diag.pc = position
    /\ diag.ended = "running"
    /\ diag' = [diag EXCEPT
                  !.pc = Then(position, verdict),
                  !.probed = Append(@, [name |-> name, class |-> verdict.class,
                                        result |-> verdict.result]),
                  !.results = IF name = "Tavus" /\ verdict.result = None
                              THEN @ ELSE ResultsSet(@, name, verdict.result)]
    /\ UNCHANGED <<config, store, requested, last>>

\* The summary, main's return value and sys.exit(exit_code)
MainReturns ==
    /\ diag.pc = 7
    /\ diag.ended = "running"
    /\ diag' = [diag EXCEPT !.pc = 8,
                            !.summary = Summary(diag.results),
                            !.ended = "returned",
                            !.exit = <<ExitCode(diag.results)>>]
    /\ UNCHANGED <<config, store, requested, last>>

\* except KeyboardInterrupt / except Exception around asyncio.run(main())
MainRaises(exception) ==
    /\ diag.ended = "running"
    /\ diag' = [diag EXCEPT !.pc = 8, !.ended = exception, !.exit = <<1>>]
    /\ UNCHANGED <<config, store, requested, last>>

----------------------------------------------------------------------------
(* Inputs *)

Names == {"Ann", "Bob"}

\* "", "soon", "2025-03-01", "2025-03-01T10:00:00", "...T10:00:00+05:30",
\* "...T10:00:00Z", "...T10:00:00-05:00", "...T02:00:00", "...T02:00:00+05:30",
\* "2025-03-01+10:00:00", "2025-03-01-10:00:00", "2025-03-01Z10:00:00"
DatetimeTexts ==
    {EmptyText, JunkText, DateOnly,
     Iso("T", 600, ""), Iso("T", 600, "+05:30"), Iso("T", 600, "Z"),
     Iso("T", 600, "-05:00"), Iso("T", 120, ""), Iso("T", 120, "+05:30"),
     Iso("+", 600, ""), Iso("-", 600, ""), Iso("Z", 600, "")}

BaseRequest ==
    [name |-> "Ann", email |-> "ann@x.io", phone |-> "555",
     datetime |-> Iso("T", 600, ""), resumeText |-> None, resumeUrl |-> None]

\* Requests that differ in the datetime text alone
DatetimeRequests == {[BaseRequest EXCEPT !.datetime = text] : text \in DatetimeTexts}

\* Requests with every field filled in, whatever the datetime text
CompleteRequests ==
    [name : Names, email : WellFormedEmails, phone : {"555"},
     datetime : {JunkText, Iso("T", 600, ""), Iso("T", 600, "-05:00"), Iso("+", 600, "")},
     resumeText : {None}, resumeUrl : {None}]

Blank(request, fields) ==
    [name |-> IF "name" \in fields THEN "" ELSE request.name,
     email |-> IF "email" \in fields THEN "" ELSE request.email,
     phone |-> IF "phone" \in fields THEN "" ELSE request.phone,
     datetime |-> IF "datetime" \in fields THEN EmptyText ELSE request.datetime,
     resumeText |-> request.resumeText, resumeUrl |-> request.resumeUrl]

\* Requests with one or more of the required fields empty
IncompleteRequests ==
    {Blank(BaseRequest, fields) :
        fields \in (SUBSET {"name", "email", "phone", "datetime"}) \ {{}}}

ScheduleRequests == CompleteRequests \cup IncompleteRequests

\* Requests that differ in the resume text alone
SeedRequests == {[BaseRequest EXCEPT !.resumeText = text] : text \in {None, "cv"}}

Tokens == 1 .. (MaxBookings + 1)

Files == [ext : {"pdf", "exe"}, oversized : BOOLEAN]

RoomConfigs ==
    {<<>>,
     <<[agents |-> <<>>]>>,
     <<[agents |-> << <<>> >>]>>,
     <<[agents |-> << <<[agent_name |-> None]>> >>]>>,
     <<[agents |-> << <<[agent_name |-> ""]>> >>]>>,
     <<[agents |-> << <<[agent_name |-> "custom-agent"]>> >>]>>}

ConnectionRequests ==
    [room_config : RoomConfigs, token : {<<>>} \cup {<<t>> : t \in Tokens}]

\* Requests without a room_config
PlainRequests == {r \in ConnectionRequests : r.room_config = <<>>}

\* random.randint(1, RandMax): the ends of the range stand for it
RandomDraws == {1, RandMax}

UnsetOrSet(value) == {"", value}

Configs ==
    [url : UnsetOrSet("wss://livekit.example"),
     api_key : UnsetOrSet("key"),
     api_secret : UnsetOrSet("secret"),
     agent_name : UnsetOrSet("interview-agent"),
     frontend_url : {[origin |-> "https://app.example", slash |-> TRUE]}]

Configured(c) == ~Falsy(c.url) /\ ~Falsy(c.api_key) /\ ~Falsy(c.api_secret)

----------------------------------------------------------------------------
(* Specifications *)

Idle ==
    [op |-> "none", request |-> <<>>, status |-> 0, detail |-> <<>>,
     body |-> <<>>, calls |-> <<>>, handed |-> <<>>]

\* Any configuration, an empty booking table, no request handled yet
Init ==
    /\ config \in Configs
    /\ store = <<>>
    /\ requested = <<>>
    /\ last = Idle
    /\ diag = Started

\* A server with the platform credentials and the default agent name set
InitDeployed ==
    /\ Init
    /\ Configured(config)
    /\ ~Falsy(config.agent_name)

Upload ==
    /\ \E file \in Files, uploaded \in UploadOutcomes, extracted \in ExtractOutcomes :
          UploadApplication(file, uploaded, extracted)
    /\ UNCHANGED diag

Schedule(requests) ==
    /\ \E request \in requests, created \in CreateOutcomes, mail \in EmailOutcomes :
          ScheduleInterview(request, created, mail)
    /\ UNCHANGED diag

Get ==
    /\ \E token \in Tokens, lookup \in LookupOutcomes : GetBooking(token, lookup)
    /\ UNCHANGED diag

Connect(requests) ==
    /\ \E request \in requests, lookup \in LookupOutcomes,
          user_rand \in RandomDraws, room_rand \in RandomDraws :
          ConnectionDetails(request, lookup, user_rand, room_rand)
    /\ UNCHANGED diag

\* The booking flow on a deployed server
Next ==
    \/ Upload
    \/ Schedule(ScheduleRequests)
    \/ Get
    \/ Connect(PlainRequests)

Spec == InitDeployed /\ [][Next]_vars

\* Scheduling alone, over the datetime texts
ParseNext == Schedule(DatetimeRequests)

ParseSpec == InitDeployed /\ [][ParseNext]_vars

\* Session-token issuance on every configuration, over bookings with and
\* without resume text
SessionNext ==
    \/ Schedule(SeedRequests)
    \/ Connect(ConnectionRequests)

SessionSpec == Init /\ [][SessionNext]_vars

\* One run of the credential validation script
\* What os.getenv returns: unset, blank, the template's placeholder, a value
EnvValues(template) == {None, " ", template, "key"}

HttpReplies == {Reply(200), Reply(401), Reply(402), Reply(302), Reply(500), Raised("timeout"), Raised("402")}

GeminiReplies ==
    {Generated("test"), Generated(None),
     Raised("API_KEY_INVALID"), Raised("429 quota"), Raised("timeout")}

SigningOutcomes == {Generated("jwt"), Generated(""), Raised("bad key")}

ProbeGemini ==
    \E google_api_key \in EnvValues("your_google_api_key"),
       google_genai_api_key \in {None, "key"}, reply \in GeminiReplies :
        Await(1, "Google Gemini",
              test_google_gemini_api_key(google_api_key, google_genai_api_key, reply))

ProbeDeepgram ==
    \E api_key \in EnvValues("your_deepgram_api_key"), reply \in HttpReplies :
        Await(2, "Deepgram", test_deepgram_api_key(api_key, reply))

ProbeElevenLabs ==
    \E api_key \in EnvValues("your_elevenlabs_api_key"), reply \in HttpReplies :
        Await(3, "ElevenLabs", test_elevenlabs_api_key(api_key, reply))

ProbeLiveKit ==
    \E api_key \in EnvValues("your_livekit_api_key"),
       api_secret \in EnvValues("your_livekit_api_secret"),
       url \in EnvValues("wss://your-livekit-server.com"),
       signed \in SigningOutcomes :
        Await(4, "LiveKit", test_livekit_credentials(api_key, api_secret, url, signed))

ProbeSupabase ==
    \E url \in EnvValues("https://your-project.supabase.co"),
       key \in EnvValues("your_service_role_key"), reply \in HttpReplies :
        Await(5, "Supabase", test_supabase_credentials(url, key, reply))

ProbeTavus ==
    \E api_key \in {None, "key"}, persona_id \in {None, "persona"},
       replica_id \in {None, "replica"}, reply \in HttpReplies :
        Await(6, "Tavus", test_tavus_api_key(api_key, persona_id, replica_id, reply))

\* Ctrl-C, or an exception that escapes main, at any point of the run
Interrupted == MainRaises("KeyboardInterrupt")

UnexpectedError == MainRaises("Exception")

DiagNext ==
    \/ ProbeGemini
    \/ ProbeDeepgram
    \/ ProbeElevenLabs
    \/ ProbeLiveKit
    \/ ProbeSupabase
    \/ ProbeTavus
    \/ MainReturns
    \/ Interrupted
    \/ UnexpectedError

DiagSpec == InitDeployed /\ [][DiagNext]_vars

----------------------------------------------------------------------------
(* Vocabulary of the properties *)

\* The request of the last handled call
Req == last.request[1]

\* The body of the last response
Body == last.body[1]

Made(name, outcome) == \E i \in DOMAIN last.calls : last.calls[i] = Call(name, outcome)

Called(name) == \E i \in DOMAIN last.calls : last.calls[i][1] = name

\* Python's fromisoformat accepts the text
Parseable(text) == FromIsoFormat(text).ok

\* A text that ends in a zone designator
Zoned(text) == text.kind = "iso" /\ text.zone # ""

\* The wall-clock reading of a text, in minutes
WallClock(text) == IF text.sep = "" THEN 0 ELSE text.tod

\* The instant a parseable text asks for: its wall-clock time at its own
\* offset, or at +05:30 when it carries none
RequestedInstant(text) ==
    IF Zoned(text) THEN WallClock(text) - ZoneOffset(text.zone)
    ELSE WallClock(text) - 330

Complete(request) ==
    /\ request.name # ""
    /\ request.email # ""
    /\ request.phone # ""
    /\ request.datetime.kind # "empty"

----------------------------------------------------------------------------
(* C1 *)

\* C1: a schedule-interview request with complete fields and a parseable
\* datetime whose store write succeeds creates a booking and returns a URL
\* ending in its token; and whenever get-booking later answers for a token of
\* the store, it returns the name, email and phone of the request that
\* created the booking and a scheduled time denoting the instant that
\* request asked for.
C1_RetrievableAsRequested ==
    /\ (/\ last.op = "schedule"
        /\ Complete(Req)
        /\ Parseable(Req.datetime)
        /\ ~Made("create_booking", "error"))
       => /\ last.status = 200
          /\ Len(store) >= 1
          /\ Body.interviewUrl[Len(Body.interviewUrl)] = store[Len(store)].token
          /\ requested[Len(store)].request = Req
    /\ (/\ last.op = "get"
        /\ Req.token \in DOMAIN store
        /\ Made("get_booking", "ok"))
       => /\ last.status = 200
          /\ Body.token = Req.token
          /\ Body.name = requested[Req.token].request.name
          /\ Body.email = requested[Req.token].request.email
          /\ Body.phone = requested[Req.token].request.phone
          /\ UtcInstant(Body.scheduled_at)
                = <<RequestedInstant(requested[Req.token].request.datetime)>>

----------------------------------------------------------------------------
(* C2 *)

\* The text T followed by "+05:30"
WithIstOffset(text) == [text EXCEPT !.zone = "+05:30"]

\* An offset-less date-time in the ISO form YYYY-MM-DDTHH:MM:SS
OffsetlessDateTime(text) == text.kind = "iso" /\ text.sep = "T" /\ text.zone = ""

\* C2: for an offset-less ISO date-time T, the booking scheduled with T and
\* the booking scheduled with T+05:30 were handed to the store with the same
\* UTC instant, T's wall-clock time less 5 h 30 min.
C2_SameInstantWithAndWithoutIst ==
    \A i, j \in DOMAIN requested :
        (/\ OffsetlessDateTime(requested[i].request.datetime)
         /\ requested[j].request.datetime = WithIstOffset(requested[i].request.datetime))
        => /\ UtcInstant(requested[i].scheduled_at) = UtcInstant(requested[j].scheduled_at)
           /\ UtcInstant(requested[i].scheduled_at)
                = <<requested[i].request.datetime.tod - 330>>

\* "2025-03-01T10:00:00" and "2025-03-01T10:00:00+05:30" are both booked, at
\* 04:30 UTC
C2_Witness ==
    \E i, j \in DOMAIN requested :
        /\ requested[i].request.datetime = Iso("T", 600, "")
        /\ requested[j].request.datetime = Iso("T", 600, "+05:30")
        /\ UtcInstant(requested[i].scheduled_at) = <<270>>
        /\ UtcInstant(requested[j].scheduled_at) = <<270>>

----------------------------------------------------------------------------
(* C3 *)

\* C3: the timestamp schedule-interview hands to the store is never naive;
\* for a text ending in a zone designator it has the text's wall-clock time
\* at exactly that offset, and for every other text it is the UTC timestamp
\* of the text's wall-clock time read at +05:30.
C3_ZoneKeptElseIstToUtc ==
    (last.op = "schedule" /\ last.handed # <<>>) =>
        LET dt == last.handed[1]
            text == Req.datetime
        IN  /\ dt.aware
            /\ Zoned(text) =>
                  /\ dt.off = ZoneOffset(text.zone)
                  /\ dt.wall = WallClock(text)
            /\ ~Zoned(text) =>
                  /\ dt.off = 0
                  /\ dt.wall = WallClock(text) - 330

----------------------------------------------------------------------------
(* C4 *)

\* A schedule-interview input error: a required field is empty, or the
\* datetime text is no ISO date
ScheduleInputError(request) == ~Complete(request) \/ ~Parseable(request.datetime)

----------------------------------------------------------------------------
(* C5 *)

Relays(detail, error) == \E i \in DOMAIN detail : detail[i] = error

\* C5: a schedule-interview whose booking write fails, and an upload whose
\* object upload fails, is answered 500 with the provider's message in the
\* detail, has no response body (no URL, no success), and makes no later
\* call (no email, no extraction).
C5_StorageFailureIs500 ==
    /\ (last.op = "schedule" /\ Made("create_booking", "error"))
       => /\ last.status = 500
          /\ Relays(last.detail, StorageError)
          /\ last.body = <<>>
          /\ ~Called("send_interview_email")
    /\ (last.op = "upload" /\ Made("upload_resume_to_storage", "error"))
       => /\ last.status = 500
          /\ Relays(last.detail, StorageError)
          /\ last.body = <<>>
          /\ ~Called("extract_text")

\* A booking write failed with a booking already in the store
C5_Witness ==
    /\ last.op = "schedule"
    /\ Made("create_booking", "error")
    /\ last.status = 500
    /\ Len(store) = 1

----------------------------------------------------------------------------
(* C6 *)

\* C6: when the booking was created and the email notifier then returned a
\* failure or raised, the response is 200 with ok = TRUE, the interview URL
\* of the booking, emailSent = FALSE and an error string, and the booking is
\* in the store.
C6_EmailFailureNotFatal ==
    (/\ last.op = "schedule"
     /\ Made("create_booking", "ok")
     /\ (Made("send_interview_email", "failed") \/ Made("send_interview_email", "raised")))
    => /\ last.status = 200
       /\ Body.ok = TRUE
       /\ Body.interviewUrl = <<config.frontend_url.origin, "interview", Len(store)>>
       /\ Body.emailSent = FALSE
       /\ Body.emailError # None
       /\ store[Len(store)].name = Req.name
       /\ store[Len(store)].email = Req.email
       /\ requested[Len(store)].request = Req

\* The notifier raised while the second booking was scheduled
C6_Witness ==
    /\ last.op = "schedule"
    /\ Made("send_interview_email", "raised")
    /\ last.status = 200
    /\ Body.emailSent = FALSE
    /\ Len(store) = 2

----------------------------------------------------------------------------
(* C7 *)

\* C7 as stated: get-booking on a token the store holds no booking for
\* answers 404 and returns no booking fields.
C7_UnknownTokenIs404 ==
    (last.op = "get" /\ Req.token \notin DOMAIN store)
    => /\ last.status = 404
       /\ last.body = <<>>

\* C7, amended: get-booking on a token the store holds no booking for
\* returns no booking fields and answers 404, or 500 when the store lookup
\* itself raises.
C7_UnknownTokenIs404Or500 ==
    (last.op = "get" /\ Req.token \notin DOMAIN store)
    => /\ last.body = <<>>
       /\ last.status = IF Made("get_booking", "error") THEN 500 ELSE 404

\* An unknown token was looked up in a store that holds a booking
C7_Witness ==
    /\ last.op = "get"
    /\ Len(store) = 1
    /\ Req.token = 2
    /\ last.status = 404

----------------------------------------------------------------------------
(* C8 *)

\* The credential of the last response
Credential == Body.participantToken

\* The credential's room configuration carries no metadata
NoMetadata(credential) ==
    credential.room_config = <<>> \/ credential.room_config[1].metadata = <<>>

\* C8: with the three platform credentials configured, connection-details
\* without a booking token answers 200 with a credential signed with the
\* API secret whose grant has room_join, can_publish, can_publish_data and
\* can_subscribe set, names the room returned in the response, and carries
\* no resume metadata.
C8_GrantWithoutToken ==
    (last.op = "connect" /\ Configured(config) /\ Req.token = <<>>)
    => /\ last.status = 200
       /\ Credential.signed_with = config.api_secret
       /\ Credential.api_key = config.api_key
       /\ Credential.video.room_join = TRUE
       /\ Credential.video.can_publish = TRUE
       /\ Credential.video.can_publish_data = TRUE
       /\ Credential.video.can_subscribe = TRUE
       /\ Credential.video.room = Body.roomName
       /\ NoMetadata(Credential)

\* A credential for the highest room number was issued without a token while
\* the store holds a booking with resume text
C8_Witness ==
    /\ last.op = "connect"
    /\ Configured(config)
    /\ Req.token = <<>>
    /\ last.status = 200
    /\ Body.roomName = <<"voice_assistant_room_", RandMax>>
    /\ \E t \in DOMAIN store : store[t].resume_text = "cv"

----------------------------------------------------------------------------
(* C9 *)

\* C9: with the platform credentials configured, connection-details with a
\* token that resolves to a booking with resume text answers 200 with a
\* credential whose room configuration carries that text as metadata.
C9_ResumeMetadataAttached ==
    (/\ last.op = "connect"
     /\ Configured(config)
     /\ Req.token # <<>>
     /\ Made("get_booking", "ok")
     /\ Req.token[1] \in DOMAIN store
     /\ ~Falsy(store[Req.token[1]].resume_text))
    => /\ last.status = 200
       /\ Credential.room_config # <<>>
       /\ Credential.room_config[1].metadata
            = <<[resume_text |-> store[Req.token[1]].resume_text]>>

----------------------------------------------------------------------------
(* C10 *)

\* C10: while one of the platform URL, API key or API secret is not
\* configured, every connection-details request is answered 500 with the
\* configuration error, before any booking lookup or token signing, and no
\* credential is returned.
C10_UnconfiguredIs500 ==
    (last.op = "connect" /\ ~Configured(config))
    => /\ last.status = 500
       /\ last.detail \in {<<"LIVEKIT_URL is not configured">>,
                           <<"LIVEKIT_API_KEY is not configured">>,
                           <<"LIVEKIT_API_SECRET is not configured">>}
       /\ last.calls = <<>>
       /\ last.body = <<>>

\* Only the API secret is missing, and a request with the token of a stored
\* booking was refused
C10_Witness ==
    /\ last.op = "connect"
    /\ ~Falsy(config.url) /\ ~Falsy(config.api_key) /\ Falsy(config.api_secret)
    /\ Req.token = <<1>>
    /\ Len(store) >= 1
    /\ last.status = 500

----------------------------------------------------------------------------
(* C11 *)

\* The upload passed validation
Validated == Made("validate_file", "ok")

\* The success response of an upload: 200, a non-empty storage URL, and
\* either the extracted text with no error, or the extraction error with
\* resumeText absent
UploadSucceeded ==
    /\ last.status = 200
    /\ last.body # <<>>
    /\ Body.resumeUrl # <<>>
    /\ Made("extract_text", "text")
       => Body.resumeText \notin {None, ""} /\ Body.extractionError = None
    /\ Made("extract_text", "error")
       => Body.resumeText = None /\ Body.extractionError \notin {None, ""}

\* C11 as stated: every upload that passes validation is answered with a
\* success response with a non-empty storage URL, a failed extraction being
\* reported in extractionError with resumeText absent.
C11_ValidUploadSucceeds ==
    (last.op = "upload" /\ Validated) => UploadSucceeded

\* C11: every upload that passes validation and whose object upload
\* succeeds is answered with a success response with a non-empty storage
\* URL, whether or not the extraction that follows succeeds: a failed
\* extraction is reported in extractionError with resumeText absent.
C11_StoredUploadSucceeds ==
    (last.op = "upload" /\ Validated /\ Made("upload_resume_to_storage", "ok"))
    => /\ UploadSucceeded
       /\ Called("extract_text")

\* A validated, stored upload whose extraction failed was answered
C11_Witness ==
    /\ last.op = "upload"
    /\ Validated
    /\ Made("upload_resume_to_storage", "ok")
    /\ Made("extract_text", "error")
    /\ last.status = 200
    /\ Body.extractionError = "extraction failed"

----------------------------------------------------------------------------
(* C12 *)

\* The script has exited
Exited == diag.exit # <<>>

\* The verdict class the probe of a provider printed, if it ran
Classes(name) == {diag.probed[i].class : i \in {j \in DOMAIN diag.probed : diag.probed[j].name = name}}

\* The provider was probed and found valid
ClassifiedValid(name) ==
    Classes(name) \cap {"VALID", "VALID (token generation successful)"} # {}

\* The provider was probed and its validity could not be determined; the
\* probe assumes it valid
AssumedValid(name) == Classes(name) \cap {"Could not validate", "Status"} # {}

RequiredProviders == {required_keys[i] : i \in DOMAIN required_keys}

\* C12 as stated: the script exits with status 0 if and only if every
\* required provider was classified valid, and with status 1 in every other
\* run, interrupted runs and runs with an unexpected error included; the
\* optional provider's result does not matter.
C12_ExitZeroIffAllRequiredValid ==
    Exited
    => /\ diag.exit \in {<<0>>, <<1>>}
       /\ diag.exit = <<0>>
          <=> /\ diag.ended = "returned"
              /\ \A name \in RequiredProviders : ClassifiedValid(name)

\* C12: the script exits with status 0 if and only if main returned and
\* every required provider was classified valid or, for Supabase alone,
\* assumed valid because its check was inconclusive (an exception or a
\* status other than 200, 301, 302, 401); it exits with status 1 in every
\* other run, interrupted runs and runs with an unexpected error included;
\* the optional provider's result does not matter.
C12_ExitZeroIffAllRequiredPass ==
    Exited
    => /\ diag.exit \in {<<0>>, <<1>>}
       /\ diag.exit = <<0>>
          <=> /\ diag.ended = "returned"
              /\ \A name \in RequiredProviders :
                    \/ ClassifiedValid(name)
                    \/ name = "Supabase" /\ AssumedValid(name)

\* The script exited 0 although the optional provider was found invalid
C12_Witness ==
    /\ Exited
    /\ diag.ended = "returned"
    /\ diag.exit = <<0>>
    /\ \A name \in RequiredProviders : ClassifiedValid(name)
    /\ Classes("Tavus") = {"INVALID or EXPIRED"}

----------------------------------------------------------------------------
(* C13 *)

ProbeOrder == <<"Google Gemini", "Deepgram", "ElevenLabs", "LiveKit", "Supabase", "Tavus">>

\* The providers probed so far, in the order of their probes
Probed == [i \in DOMAIN diag.probed |-> diag.probed[i].name]

\* C13 as stated: in every run of the script all six probes are executed,
\* in the order Gemini, Deepgram, ElevenLabs, LiveKit, Supabase, Tavus, and
\* the summary is produced, whatever the probes find.
C13_EveryRunProbesAll ==
    Exited => Probed = ProbeOrder /\ diag.summary # <<>>

\* C13: the probes run in the order Gemini, Deepgram, ElevenLabs, LiveKit,
\* Supabase, Tavus, each returning a result whatever it finds (missing key,
\* error status, exception), and in every run that is not cut short by an
\* interruption or an unexpected error outside the probes all six are
\* executed and the summary is produced with a line for each provider.
C13_UninterruptedRunProbesAll ==
    /\ Probed = SubSeq(ProbeOrder, 1, Len(Probed))
    /\ \A i \in DOMAIN diag.probed : diag.probed[i].result \in {PyTrue, PyFalse, None}
    /\ diag.ended = "running" => diag.pc = Len(Probed) + 1
    /\ (Exited /\ diag.ended = "returned")
       => /\ Probed = ProbeOrder
          /\ Len(diag.summary) = Len(required_keys) + Len(optional_keys)

\* A run in which the first probe found no key, the second got an error
\* status, the third hit an exception and the fourth could not sign, and
\* which still probed Supabase and Tavus and produced the summary
C13_Witness ==
    /\ Exited
    /\ diag.ended = "returned"
    /\ Len(diag.probed) = 6
    /\ diag.probed[1].class = "Not found or invalid value"
    /\ diag.probed[2].class = "Unexpected status"
    /\ diag.probed[3].class = "ERROR"
    /\ diag.probed[4].class = "Error validating"
    /\ diag.probed[5].class = "VALID"
    /\ diag.probed[6].class = "VALID"
    /\ diag.summary # <<>>

----------------------------------------------------------------------------
(* C14 *)

\* C14: no step changes or removes an existing booking: every booking of
\* the store is there, unchanged, after the step; the store grows by one
\* record at a time, and only in a schedule-interview answered 200.  So
\* get-booking, connection-details, upload-application and failed
\* schedule-interview requests leave the store as it is.
C14_BookingsNeverMutated ==
    [][/\ \A t \in DOMAIN store : t \in DOMAIN store' /\ store'[t] = store[t]
       /\ store' # store
          => /\ Len(store') = Len(store) + 1
             /\ last'.op = "schedule"
             /\ last'.status = 200]_vars

\* A booking with its resume text was read by get-booking, with a second
\* booking in the store
C14_Witness ==
    /\ last.op = "get"
    /\ last.status = 200
    /\ Req.token = 1
    /\ Len(store) = 2
    /\ Body = store[1]

----------------------------------------------------------------------------
(* C15 *)

SameCandidateAndSlot(a, b) ==
    /\ a.name = b.name
    /\ a.email = b.email
    /\ a.phone = b.phone
    /\ a.scheduled_at = b.scheduled_at

----------------------------------------------------------------------------
(* C16 *)

\* The request's room_config has an agents list whose first entry carries a
\* non-empty agent_name
NamesAgent(room_config) ==
    /\ room_config # <<>>
    /\ room_config[1].agents # <<>>
    /\ room_config[1].agents[1] # <<>>
    /\ room_config[1].agents[1][1].agent_name \notin {None, ""}

\* C16: the agent dispatched by an issued credential's room configuration
\* is the agent_name of the first entry of the request's room_config.agents
\* when the request carries a non-empty one, and the configured default
\* agent name otherwise (no room_config, no agents key, an empty agents
\* list, a first entry without agent_name or with an empty one); the room
\* configuration names exactly that one agent, and it is left out only when
\* neither the request nor the configuration names an agent.
C16_AgentNameDerivation ==
    (last.op = "connect" /\ last.status = 200)
    => LET expected == IF NamesAgent(Req.room_config)
                       THEN Req.room_config[1].agents[1][1].agent_name
                       ELSE config.agent_name
       IN  IF expected \in {None, ""}
           THEN Credential.room_config = <<>>
           ELSE /\ Credential.room_config # <<>>
                /\ Credential.room_config[1].agents = <<expected>>

\* A request whose first agent entry has an empty agent_name was given the
\* configured default agent
C16_Witness ==
    /\ last.op = "connect"
    /\ last.status = 200
    /\ Req.room_config = <<[agents |-> << <<[agent_name |-> ""]>> >>]>>
    /\ config.agent_name = "interview-agent"
    /\ Credential.room_config # <<>>
    /\ Credential.room_config[1].agents = <<"interview-agent">>

----------------------------------------------------------------------------
(* C17 *)

\* The booking lookup of the last request found no resume text: it raised,
\* the token is unknown, or the booking has no resume text
NoResumeFound ==
    \/ Made("get_booking", "error")
    \/ Req.token[1] \notin DOMAIN store
    \/ Falsy(store[Req.token[1]].resume_text)

\* C17: with the platform credentials configured, connection-details with a
\* booking token makes the lookup and answers 200 with a signed credential
\* carrying the full grant for the returned room, whatever the lookup's
\* outcome; when the lookup raises, the token is unknown or the booking has
\* no resume text, the credential carries no resume metadata.
C17_LookupIsBestEffort ==
    (last.op = "connect" /\ Configured(config) /\ Req.token # <<>>)
    => /\ Called("get_booking")
       /\ last.status = 200
       /\ Credential.signed_with = config.api_secret
       /\ Credential.video = [room |-> Body.roomName, room_join |-> TRUE,
                              can_publish |-> TRUE, can_publish_data |-> TRUE,
                              can_subscribe |-> TRUE]
       /\ NoResumeFound => NoMetadata(Credential)

\* The lookup raised for the token of a booking that has resume text, and
\* a credential without metadata was issued for an agent
C17_Witness ==
    /\ last.op = "connect"
    /\ Req.token = <<1>>
    /\ Len(store) >= 1
    /\ store[1].resume_text = "cv"
    /\ Made("get_booking", "error")
    /\ last.status = 200
    /\ Credential.room_config # <<>>
    /\ Credential.room_config[1].metadata = <<>>

====
